---- MODULE Spec2Model ----
(***************************************************************************)
(* Research-analysis pipeline of the portfolio backend:                    *)
(*   app/ml/research_analyzer.py        ResearchAnalyzer                   *)
(*   app/services/research_service.py   ResearchService                    *)
(*   app/api/v1/endpoints/research.py   the /research endpoints            *)
(*                                                                         *)
(* Numbers are fixed point: the score 1.0 is One units, a weight is in     *)
(* hundredths, so an overall_score is in units of 1/(100 * One).           *)
(* Python strings are sequences of tokens: a word, " " or "." or "_".      *)
(***************************************************************************)
EXTENDS Integers, Sequences, FiniteSets, TLC

VARIABLES
    an_pc,          \* position of one analyze_research call
    research_data,  \* its argument
    task,           \* the four gathered coroutines: "pending", "raised" or a dict
    analysis,       \* what analyze_research returned
    score_in,       \* argument of a direct calculate_overall_score call
    score_out,      \* its return value
    db,             \* committed rows of table researches, by id
    index,          \* documents of the "researches" index, by id
    next_id,        \* autoincrement primary key
    req,            \* the request being handled, or the last one handled
    calls,          \* analyze_research invocations made for req
    model_calls,    \* encoder invocations of the analyze_research call
    order,          \* the gathered coroutines in the order they finished
    model,          \* what the loaded weights compute, per encoder and argument
    lru_cache,      \* the lru_cache of count_technical_terms
    fitted,         \* the text self.tfidf and self.lda were last fitted on
    first_run,      \* per input, what the first analyze_research run returned
    files,          \* urls of the stored files
    user,           \* current_user of the request being handled
    similar,        \* one find_similar call: arguments, index answer, result
    upd,            \* the update requests in flight, each with its own Session
    comment,        \* one Comment row
    parent,         \* Category.parent of every category
    move,           \* the last move_to_parent call
    limiter,        \* a RateLimiter object
    now,            \* datetime.utcnow()
    granted,        \* per key, the times of the is_allowed calls that returned True
    redis,          \* the rate-limit key of one user in Redis
    rl,             \* the requests passing RateLimitDependency
    admitted        \* requests admitted since the key was created

an_vars == <<an_pc, research_data, task, analysis, model_calls, order>>
score_vars == <<score_in, score_out>>
svc_vars == <<db, index, next_id, req, calls, files, user>>
run_vars == <<model, lru_cache, fitted, first_run>>
other_vars == <<run_vars, similar, upd>>
category_vars == <<parent, move>>
limiter_vars == <<limiter, now, granted>>
redis_vars == <<redis, rl, admitted>>
misc_vars == <<comment, category_vars, limiter_vars, redis_vars>>
vars == <<an_pc, research_data, task, analysis, model_calls, order,
          score_in, score_out, db, index, next_id, req, calls, files, user,
          model, lru_cache, fitted, first_run, similar, upd,
          comment, parent, move, limiter, now, granted, redis, rl, admitted>>

\* Model outputs are drawn from 0, 0.5, ..., MaxRaw * 0.5.
MaxRaw == 3
\* At most MaxPapers rows are ever inserted.
MaxPapers == 1
\* papers find_similar runs over
MaxDocs == 3
\* largest limit of a find_similar call
MaxLimit == 2

One == 6 * 100
Half == One \div 2

(***************************************************************************)
(* Python values                                                           *)
(***************************************************************************)
Dict(items) == [type |-> "dict", items |-> items]
isinstance_dict(v) == v.type = "dict"
None == [type |-> "NoneType"]
Raised == [type |-> "exception"]
Pending == [type |-> "pending"]

RECURSIVE SumSeq(_)
SumSeq(s) == IF s = <<>> THEN 0 ELSE Head(s) + SumSeq(Tail(s))

RECURSIVE np_max(_)
np_max(s) ==
    IF Len(s) = 1 THEN s[1]
    ELSE IF Head(s) >= np_max(Tail(s)) THEN Head(s) ELSE np_max(Tail(s))

\* np.mean of a non-empty list whose sum the length divides
np_mean(s) == SumSeq(s) \div Len(s)

Min2(a, b) == IF a <= b THEN a ELSE b

\* str.split(sep)[0]
Split0(s, sep) ==
    IF \E i \in 1..Len(s) : s[i] = sep
    THEN SubSeq(s, 1, (CHOOSE i \in 1..Len(s) :
                          s[i] = sep /\ \A j \in 1..(i - 1) : s[j] # sep) - 1)
    ELSE s

\* str.split(sep)
RECURSIVE Split(_, _)
Split(s, sep) ==
    IF \E i \in 1..Len(s) : s[i] = sep
    THEN <<Split0(s, sep)>>
         \o Split(SubSeq(s, Len(Split0(s, sep)) + 2, Len(s)), sep)
    ELSE <<s>>

\* len(str.split(sep))
SplitLen(s, sep) == 1 + Cardinality({i \in 1..Len(s) : s[i] = sep})

\* set(str.split()): the maximal runs of tokens between spaces
SplitWords(s) ==
    {SubSeq(s, i, j) : <<i, j>> \in
        {p \in (1..Len(s)) \X (1..Len(s)) :
            /\ p[1] <= p[2]
            /\ \A k \in p[1]..p[2] : s[k] # " "
            /\ (p[1] = 1 \/ s[p[1] - 1] = " ")
            /\ (p[2] = Len(s) \/ s[p[2] + 1] = " ")}}

\* str.lower() on the tokens used here
LowerTok(t) ==
    CASE t = "Data" -> "data"
      [] t = "X" -> "x"
      [] t = "Y" -> "y"
      [] t = "ML" -> "ml"
      [] OTHER -> t
lower(s) == [i \in 1..Len(s) |-> LowerTok(s[i])]

\* f"{a} {b}"
fstr2(a, b) == a \o <<" ">> \o b

(***************************************************************************)
(* ResearchAnalyzer                                                        *)
(***************************************************************************)
content_quality == <<"content", "_", "quality">>
novelty == <<"novelty">>
methodology == <<"methodology">>
impact_potential == <<"impact", "_", "potential">>

\* the dict literal of calculate_overall_score, in insertion order
weights == << <<content_quality, 30>>, <<novelty, 25>>,
              <<methodology, 25>>, <<impact_potential, 20>> >>

get_technical_terms ==
    {"algorithm", "methodology", "framework", "analysis", "model", "system",
     "data", "research", "study", "implementation", "results", "performance",
     "evaluation"}

count_technical_terms(text) ==
    Cardinality(SplitWords(lower(text)) \cap {<<t>> : t \in get_technical_terms})

\* min(1.0, technical_terms / 100)
assess_technical_depth(text) ==
    Min2(One, (count_technical_terms(text) * One) \div 100)

\* float(torch.mean(torch.std(embeddings, dim=1))): the encoder's value as it is
calculate_clarity_score(bert_out) == bert_out

\* 0.8 below two sentences, else the mean similarity the encoder gives
calculate_coherence_score(text, use_out) ==
    IF SplitLen(text, ".") < 2 THEN (8 * One) \div 10 ELSE use_out

\* 'overall_' + metric.split('_')[0]
score_key(metric) == <<"overall", "_">> \o Split0(metric, "_")

\* the guard of the summation loop
term_present(result, metric) ==
    isinstance_dict(result) /\ score_key(metric) \in DOMAIN result.items

\* for result, (metric, weight) in zip(results, weights.items())
summed_terms(results) ==
    {i \in 1..Min2(Len(results), Len(weights)) : term_present(results[i], weights[i][1])}

RECURSIVE SumOver(_, _)
SumOver(f, S) ==
    IF S = {} THEN 0
    ELSE LET i == CHOOSE x \in S : TRUE IN f[i] + SumOver(f, S \ {i})

\* result.get(key, 0.5) * weight for every zipped pair
calculate_overall_score_default(results) ==
    SumOver([i \in 1..Min2(Len(results), Len(weights)) |->
                (IF term_present(results[i], weights[i][1])
                 THEN results[i].items[score_key(weights[i][1])]
                 ELSE Half) * weights[i][2]],
            1..Min2(Len(results), Len(weights)))

calculate_overall_score(results) ==
    SumOver([i \in summed_terms(results) |->
                results[i].items[score_key(weights[i][1])] * weights[i][2]],
            summed_terms(results))

\* the weights of the terms that calculate_overall_score adds up
summed_weights(results) ==
    SumOver([i \in summed_terms(results) |-> weights[i][2]], summed_terms(results))

text_of(rd) == fstr2(rd.title, rd.abstract)

\* the dict analyze_content_quality returns
content_quality_result(clarity_score, coherence_score, technical_depth) ==
    Dict(<<"clarity">> :> clarity_score
      @@ <<"coherence">> :> coherence_score
      @@ <<"technical", "_", "depth">> :> technical_depth
      @@ <<"overall", "_", "quality">> :>
             np_mean(<<clarity_score, coherence_score, technical_depth>>))

analyze_content_quality(rd, bert_out, use_out) ==
    content_quality_result(calculate_clarity_score(bert_out),
                           calculate_coherence_score(text_of(rd), use_out),
                           assess_technical_depth(text_of(rd)))

analyze_novelty(uniqueness_score, innovation_score) ==
    Dict(<<"uniqueness">> :> uniqueness_score
      @@ <<"innovation">> :> innovation_score
      @@ <<"overall", "_", "novelty">> :>
             np_mean(<<uniqueness_score, innovation_score>>))

analyze_methodology(methodology_types, robustness_score, validation_score) ==
    Dict(<<"methodology", "_", "types">> :> methodology_types
      @@ <<"robustness">> :> robustness_score
      @@ <<"validation">> :> validation_score
      @@ <<"overall", "_", "methodology">> :>
             np_mean(<<robustness_score, validation_score>>))

analyze_impact_potential(academic_impact, practical_impact, citation_potential) ==
    Dict(<<"academic", "_", "impact">> :> academic_impact
      @@ <<"practical", "_", "impact">> :> practical_impact
      @@ <<"citation", "_", "potential">> :> citation_potential
      @@ <<"overall", "_", "impact">> :>
             np_mean(<<academic_impact, practical_impact, citation_potential>>))

\* what the text and sentence encoders can give back
RawVals == {Half * j : j \in 0..MaxRaw}
\* what the helper scorers that are only called here give back: a score in [0,1]
UnitVals == {0, One}

AnalyzerInputs ==
    {[title |-> <<"X">>, abstract |-> <<"Y">>,
      content |-> <<"short", " ", "text", ".">>, keywords |-> <<>>],
     [title |-> <<"Data">>, abstract |-> <<"model", ".", " ", "study">>,
      content |-> <<"data", " ", "analysis">>, keywords |-> <<"ML">>],
     [title |-> <<"system", " ", "research">>, abstract |-> <<"results">>,
      content |-> <<>>, keywords |-> <<>>],
     [title |-> <<"X">>, abstract |-> <<"Y", ".">>,
      content |-> <<"short", " ", "text", ".">>, keywords |-> <<>>]}

Metrics == {"content_quality", "novelty", "methodology", "impact_potential"}
NoTasks == [m \in Metrics |-> None]
AllPending == [m \in Metrics |-> Pending]

\* results of asyncio.gather, in argument order
gathered(t) ==
    <<t["content_quality"], t["novelty"], t["methodology"], t["impact_potential"]>>

gather_done_return_exceptions(t) == \A m \in Metrics : t[m] # Pending

\* asyncio.gather returns once every awaitable has returned
gather_done(t) == \A m \in Metrics : isinstance_dict(t[m])

\* asyncio.gather raises the first exception of an awaitable
gather_raises(t) == \E m \in Metrics : t[m] = Raised

\* one invocation of a pre-trained model that returned
ModelCall(m, caller, input) == [model |-> m, by |-> caller, input |-> input]

\* the encoders analyze_content_quality runs: the text encoder on the text,
\* and the sentence encoder on the sentences unless coherence is the default
content_quality_calls(rd) ==
    {ModelCall("bert_model", "analyze_content_quality", <<text_of(rd)>>)}
    \cup (IF SplitLen(text_of(rd), ".") < 2 THEN {}
          ELSE {ModelCall("use_model", "calculate_coherence_score",
                          Split(text_of(rd), "."))})

novelty_calls(rd) ==
    {ModelCall("sentence_transformer", "analyze_novelty", <<text_of(rd)>>)}

impact_potential_calls(rd) ==
    {ModelCall("use_model", "analyze_impact_potential", <<text_of(rd)>>)}

AnStart(rd) ==
    /\ an_pc = "idle"
    /\ an_pc' = "gather"
    /\ research_data' = rd
    /\ task' = AllPending
    /\ analysis' = None
    /\ model_calls' = {}
    /\ order' = <<>>
    /\ UNCHANGED <<score_vars, misc_vars, other_vars, svc_vars>>

RunContentQuality ==
    /\ an_pc = "gather"
    /\ task["content_quality"] = Pending
    /\ \/ \E bert_out \in RawVals, use_out \in RawVals :
            task' = [task EXCEPT !["content_quality"] =
                        analyze_content_quality(research_data, bert_out, use_out)]
       \/ task' = [task EXCEPT !["content_quality"] = Raised]
    /\ model_calls' = IF task'["content_quality"] = Raised THEN model_calls
                      ELSE model_calls \cup content_quality_calls(research_data)
    /\ order' = Append(order, "content_quality")
    /\ UNCHANGED <<an_pc, research_data, analysis, score_vars, misc_vars, other_vars, svc_vars>>

RunNovelty ==
    /\ an_pc = "gather"
    /\ task["novelty"] = Pending
    /\ \/ \E u \in UnitVals, i \in UnitVals :
            task' = [task EXCEPT !["novelty"] = analyze_novelty(u, i)]
       \/ task' = [task EXCEPT !["novelty"] = Raised]
    /\ model_calls' = IF task'["novelty"] = Raised THEN model_calls
                      ELSE model_calls \cup novelty_calls(research_data)
    /\ order' = Append(order, "novelty")
    /\ UNCHANGED <<an_pc, research_data, analysis, score_vars, misc_vars, other_vars, svc_vars>>

RunMethodology ==
    /\ an_pc = "gather"
    /\ task["methodology"] = Pending
    /\ \/ \E r \in UnitVals, v \in UnitVals :
            task' = [task EXCEPT !["methodology"] =
                        analyze_methodology(<<"experimental">>, r, v)]
       \/ task' = [task EXCEPT !["methodology"] = Raised]
    /\ order' = Append(order, "methodology")
    /\ UNCHANGED <<model_calls, an_pc, research_data, analysis, score_vars, misc_vars, other_vars, svc_vars>>

RunImpactPotential ==
    /\ an_pc = "gather"
    /\ task["impact_potential"] = Pending
    /\ \/ \E a \in UnitVals, p \in UnitVals, c \in UnitVals :
            task' = [task EXCEPT !["impact_potential"] =
                        analyze_impact_potential(a, p, c)]
       \/ task' = [task EXCEPT !["impact_potential"] = Raised]
    /\ model_calls' = IF task'["impact_potential"] = Raised THEN model_calls
                      ELSE model_calls \cup impact_potential_calls(research_data)
    /\ order' = Append(order, "impact_potential")
    /\ UNCHANGED <<an_pc, research_data, analysis, score_vars, misc_vars, other_vars, svc_vars>>

AnReturn ==
    /\ an_pc = "gather"
    /\ gather_done(task)
    /\ an_pc' = "returned"
    /\ analysis' = Dict("content_quality" :> task["content_quality"]
                     @@ "novelty" :> task["novelty"]
                     @@ "methodology" :> task["methodology"]
                     @@ "impact_potential" :> task["impact_potential"]
                     @@ "overall_score" :> calculate_overall_score(gathered(task)))
    /\ UNCHANGED <<research_data, task, model_calls, order, score_vars, misc_vars, other_vars, svc_vars>>

AnRaise ==
    /\ an_pc = "gather"
    /\ ~gather_done(task)
    /\ gather_raises(task)
    /\ an_pc' = "raised"
    /\ analysis' = None
    /\ UNCHANGED <<research_data, task, model_calls, order, score_vars, misc_vars, other_vars, svc_vars>>

AnInit ==
    /\ an_pc = "idle"
    /\ research_data = None
    /\ task = NoTasks
    /\ analysis = None
    /\ model_calls = {}
    /\ order = <<>>

ScoreInit0 ==
    /\ score_in = <<>>
    /\ score_out = None

\* no request yet
NoRequest ==
    [kind |-> "none", pc |-> "done", id |-> 0, body |-> None,
     reanalyze |-> FALSE, result |-> None, status |-> 0, detail |-> ""]

SvcInit0 ==
    /\ db = <<>>
    /\ index = <<>>
    /\ next_id = 1
    /\ req = NoRequest
    /\ calls = 0
    /\ files = {}
    /\ user = None

NoRuns == [results |-> <<>>, repeated |-> FALSE]

\* no analyze_research run yet, nothing cached, nothing fitted
RunInit0 ==
    /\ model = <<>>
    /\ lru_cache = <<>>
    /\ fitted = None
    /\ first_run = NoRuns

\* no find_similar call and no concurrent update requests
OtherInit0 ==
    /\ RunInit0
    /\ similar = None
    /\ upd = <<>>

\* no Comment row
CommentInit0 == comment = None

\* no categories
CategoryInit0 ==
    /\ parent = <<>>
    /\ move = None

\* no RateLimiter object
LimiterInit0 ==
    /\ limiter = None
    /\ now = 0
    /\ granted = <<>>

\* no rate-limited request
RedisInit0 ==
    /\ redis = None
    /\ rl = <<>>
    /\ admitted = 0

MiscInit0 == CommentInit0 /\ CategoryInit0 /\ LimiterInit0 /\ RedisInit0

InitAnalyzer == AnInit /\ MiscInit0 /\ ScoreInit0 /\ SvcInit0 /\ OtherInit0

NextAnalyzer ==
    \/ \E rd \in AnalyzerInputs : AnStart(rd)
    \/ RunContentQuality
    \/ RunNovelty
    \/ RunMethodology
    \/ RunImpactPotential
    \/ AnReturn
    \/ AnRaise

SpecAnalyzer == InitAnalyzer /\ [][NextAnalyzer]_vars

(***************************************************************************)
(* calculate_overall_score on its own                                      *)
(***************************************************************************)
AggregateKeys ==
    {<<"overall", "_", "content">>, <<"overall", "_", "quality">>,
     <<"overall", "_", "novelty">>, <<"overall", "_", "methodology">>,
     <<"overall", "_", "impact">>}

\* a sub-result: no dict at all, an empty dict, or a dict with one aggregate
ScoreResults ==
    {None, Dict(<<>>)} \cup {Dict(k :> v) : k \in AggregateKeys, v \in {Half, One}}

PyFloat(x) == [type |-> "float", value |-> x]

ScoreCall ==
    /\ score_out = None
    /\ score_out' = PyFloat(calculate_overall_score(score_in))
    /\ UNCHANGED <<score_in, an_vars, svc_vars, other_vars, misc_vars>>

InitScore ==
    /\ AnInit
    /\ MiscInit0
    /\ SvcInit0
    /\ OtherInit0
    /\ score_in \in {<<a, b, c, d>> : a \in ScoreResults, b \in ScoreResults,
                                      c \in ScoreResults, d \in ScoreResults}
    /\ score_out = None

NextScore == ScoreCall

SpecScore == InitScore /\ [][NextScore]_vars

(***************************************************************************)
(* ResearchService and the /research endpoints, one request at a time.     *)
(* An analysis artifact is written as the call that computed it: the       *)
(* analyzer is a function of its argument for fixed model weights.         *)
(***************************************************************************)
Titles == {<<"X">>, <<"Data">>}
Abstracts == {<<"Y">>}
Contents == {<<"short", " ", "text", ".">>, <<"data", " ", "analysis">>}
KeywordLists == {<<>>, <<"ML">>}
Ids == 1..MaxPapers

FieldValues(f) ==
    CASE f = "title" -> Titles
      [] f = "abstract" -> Abstracts
      [] f = "content" -> Contents
      [] f = "keywords" -> KeywordLists

\* ResearchCreate
CreateBodies ==
    [title : Titles, abstract : Abstracts, content : Contents, keywords : KeywordLists]

\* ResearchUpdate.dict(exclude_unset=True)
UpdateBodies ==
    UNION {{u \in [K -> Titles \cup Abstracts \cup Contents \cup KeywordLists] :
                \A f \in K : u[f] \in FieldValues(f)} :
           K \in SUBSET {"title", "abstract", "content", "keywords"}}

\* the dict the analyzer is called with
analysis_input(r) ==
    [title |-> r.title, abstract |-> r.abstract, content |-> r.content,
     keywords |-> r.keywords]

analyze_research(rd) == [type |-> "dict", analysis_of |-> rd]
generate_embedding(text) == [type |-> "ndarray", embedding_of |-> text]
tolist(a) == [type |-> "list", embedding_of |-> a.embedding_of]
extract_topics(text) == [type |-> "dict", topics_of |-> text]

\* []
EmptyList == [type |-> "list", embedding_of |-> <<>>]

\* the three results of asyncio.gather(*analysis_tasks), stored on research
with_analysis(research) ==
    [research EXCEPT
        !.analysis_results = analyze_research(analysis_input(research)),
        !.embedding_vector =
            tolist(generate_embedding(fstr2(research.title, research.abstract))),
        !.topic_distribution = extract_topics(research.content)]

\* a pdf_url that was never set: `if research.pdf_url` is false for it
NoUrl == <<>>

\* Research(**research_data.dict()), taken to build the row from the body's
\* columns; __init__ then empties the three artifacts.  pdf_url is taken to
\* be a nullable column, as ResearchResponse and the service read it.
Research(body) ==
    [title |-> body.title, abstract |-> body.abstract, content |-> body.content,
     keywords |-> body.keywords, analysis_results |-> Dict(<<>>),
     embedding_vector |-> EmptyList,
     topic_distribution |-> Dict(<<>>), pdf_url |-> NoUrl]

index_body_no_embedding(research) ==
    [title |-> research.title, abstract |-> research.abstract,
     content |-> research.content, keywords |-> research.keywords,
     embedding_vector |-> EmptyList,
     topic_distribution |-> research.topic_distribution]

\* the body _index_research sends to es_client.index
index_body(research) ==
    [title |-> research.title, abstract |-> research.abstract,
     content |-> research.content, keywords |-> research.keywords,
     embedding_vector |-> research.embedding_vector,
     topic_distribution |-> research.topic_distribution]

\* es_client.index(index="researches", id=str(research.id), body=...)
es_index(idx, id, body) ==
    [i \in DOMAIN idx \cup {id} |-> IF i = id THEN body ELSE idx[i]]

es_delete_ignored(idx, id) == idx

\* es_client.delete(index="researches", id=str(research_id), ignore=[404])
es_delete(idx, id) == [i \in DOMAIN idx \ {id} |-> idx[i]]

content_fields_without_content == {"title", "abstract"}
content_fields_with_keywords == {"title", "abstract", "content", "keywords"}

content_fields == {"title", "abstract", "content"}

\* any(field in update_data for field in content_fields)
needs_analysis(update_data) ==
    \E field \in content_fields : field \in DOMAIN update_data

\* for field, value in update_data.items(): setattr(research, field, value)
setattrs(research, update_data) ==
    [f \in DOMAIN research |->
        IF f \in DOMAIN update_data THEN update_data[f] ELSE research[f]]

\* the row ResearchService.update commits
updated_row(research, update_data) ==
    IF needs_analysis(update_data)
    THEN with_analysis(setattrs(research, update_data))
    ELSE setattrs(research, update_data)

\* ResearchService.create, when the analysis does not raise
service_create(body) ==
    LET research == with_analysis(Research(body)) IN
    /\ db' = [i \in DOMAIN db \cup {next_id} |->
                 IF i = next_id THEN research ELSE db[i]]
    /\ next_id' = next_id + 1
    /\ index' = es_index(index, next_id, index_body(research))

\* ResearchService.update, when the analysis does not raise
service_update(research_id, update_data) ==
    IF research_id \notin DOMAIN db
    THEN UNCHANGED <<db, index, next_id>>
    ELSE LET research == updated_row(db[research_id], update_data) IN
         /\ db' = [db EXCEPT ![research_id] = research]
         /\ index' = es_index(index, research_id, index_body(research))
         /\ UNCHANGED next_id

\* the files verify_file_safety accepts, by the type libmagic reads
allowed_types ==
    {"application/pdf", "image/jpeg", "image/png", "image/gif", "text/plain",
     "application/json", "text/markdown"}

\* an UploadFile: its name, as stem and extension, and the type of its bytes
Uploads ==
    {[filename |-> <<"a", ".pdf">>, file_type |-> "application/pdf"],
     [filename |-> <<"b", ".pdf">>, file_type |-> "application/pdf"],
     [filename |-> <<"notes", ".txt">>, file_type |-> "text/plain"],
     [filename |-> <<"tool", ".pdf">>, file_type |-> "application/x-dosexec"]}

\* file.filename.endswith('.pdf')
endswith_pdf(filename) == Len(filename) > 0 /\ filename[Len(filename)] = ".pdf"

\* upload_file(file, folder=..., allowed_types={"application/pdf"}): the url
\* the file is stored under
upload_file(file, folder) == <<folder, "/">> \o file.filename

\* delete_file(url)
delete_file(stored, url) == stored \ {url}

\* ResearchService.remove; gives the value remove returns
service_remove(research_id) ==
    IF research_id \notin DOMAIN db
    THEN UNCHANGED <<db, index, next_id, files>>
    ELSE /\ files' = IF db[research_id].pdf_url # NoUrl
                     THEN delete_file(files, db[research_id].pdf_url)
                     ELSE files
         /\ index' = es_delete(index, research_id)
         /\ db' = [i \in DOMAIN db \ {research_id} |-> db[i]]
         /\ UNCHANGED next_id

remove_returns(research_id) == research_id \in DOMAIN db

PyBool(b) == [type |-> "bool", value |-> b]

Users == {[is_admin |-> TRUE], [is_admin |-> FALSE]}

verify_admin_access_skipped(current_user) == TRUE

\* verify_admin_access: TRUE when it returns, FALSE when it raises
verify_admin_access(current_user) == current_user.is_admin

\* the request is made by an admin and passes verify_admin_access
ByAdmin == \E current_user \in Users :
              verify_admin_access(current_user) /\ user' = current_user

session_close_flushed(committed, pending) ==
    [i \in DOMAIN committed \cup DOMAIN pending |->
        IF i \in DOMAIN pending THEN pending[i] ELSE committed[i]]

\* get_db's finally: db.close() on a Session (autocommit=False,
\* autoflush=False) whose pending changes were never committed
session_close(committed, pending) == committed

Idle == req.pc = "done"

\* the response, or the unhandled exception, that ends a request
Respond(kind, reanalyze, status) ==
    [kind |-> kind, pc |-> "done", id |-> 0, body |-> None,
     reanalyze |-> reanalyze, result |-> None, status |-> status, detail |-> ""]

\* raise HTTPException(status_code=status, detail=detail)
HTTPException(kind, status, detail) ==
    [Respond(kind, FALSE, status) EXCEPT !.detail = detail]

\* verify_admin_access raises 403 for a user who is no admin
Forbidden(kind) ==
    /\ Idle
    /\ \E current_user \in Users :
          /\ ~verify_admin_access(current_user)
          /\ user' = current_user
    /\ req' = HTTPException(kind, 403, "Admin access required")
    /\ calls' = 0
    /\ UNCHANGED <<db, index, next_id, files, an_vars, score_vars, misc_vars, other_vars>>

\* update_research and analyze_research_manually: 404 when service.get finds no row
NotFound(kind, research_id) ==
    /\ Idle
    /\ ByAdmin
    /\ research_id \notin DOMAIN db
    /\ req' = HTTPException(kind, 404, "Research not found")
    /\ calls' = 0
    /\ UNCHANGED <<db, index, next_id, files, an_vars, score_vars, misc_vars, other_vars>>

\* create_research up to the return of service.create
CreateResearch(research) ==
    /\ Idle
    /\ ByAdmin
    /\ next_id <= MaxPapers
    /\ service_create(research)
    /\ req' = [kind |-> "create", pc |-> "create_analyze", id |-> next_id,
               body |-> research, reanalyze |-> TRUE, result |-> None,
               status |-> 0, detail |-> ""]
    /\ calls' = 1
    /\ UNCHANGED <<files, an_vars, score_vars, misc_vars, other_vars>>

\* service.create raises out of its asyncio.gather: db.add was not reached,
\* the Session is closed with nothing pending
CreateAnalysisFails(research) ==
    /\ Idle
    /\ ByAdmin
    /\ next_id <= MaxPapers
    /\ db' = session_close(db, <<>>)
    /\ req' = Respond("create", TRUE, 500)
    /\ calls' = 1
    /\ UNCHANGED <<index, next_id, files, an_vars, score_vars, misc_vars, other_vars>>

\* create_research: research_analyzer.analyze_research on the request body
CreateAnalyze(ok) ==
    /\ req.pc = "create_analyze"
    /\ req' = IF ok
              THEN [req EXCEPT !.pc = "create_writeback",
                               !.result = analyze_research(analysis_input(req.body))]
              ELSE Respond("create", TRUE, 500)
    /\ calls' = calls + 1
    /\ UNCHANGED <<db, index, next_id, files, user, an_vars, score_vars, misc_vars, other_vars>>

\* the update_data of the endpoints' second service.update call
writeback(analysis_result) == "analysis_results" :> analysis_result

\* create_research: service.update(research_obj.id, {'analysis_results': ...})
CreateWriteBack ==
    /\ req.pc = "create_writeback"
    /\ service_update(req.id, writeback(req.result))
    /\ req' = Respond("create", TRUE, 200)
    /\ UNCHANGED <<calls, files, user, an_vars, score_vars, misc_vars, other_vars>>

\* update_research up to the return of service.update
UpdateResearch(research_id, research_update) ==
    /\ Idle
    /\ ByAdmin
    /\ research_id \in DOMAIN db
    /\ service_update(research_id, research_update)
    /\ calls' = IF needs_analysis(research_update) THEN 1 ELSE 0
    /\ req' = IF \E field \in {"title", "abstract", "content"} :
                    field \in DOMAIN research_update
              THEN [kind |-> "update", pc |-> "update_analyze", id |-> research_id,
                    body |-> None, reanalyze |-> TRUE, result |-> None,
                    status |-> 0, detail |-> ""]
              ELSE Respond("update", FALSE, 200)
    /\ UNCHANGED <<files, an_vars, score_vars, misc_vars, other_vars>>

\* service.update raises out of its asyncio.gather, for an update_data that
\* needs the analysis: setattr has changed the loaded object, commit is not
\* reached and the Session is closed
UpdateAnalysisFails(research_id, research_update) ==
    /\ Idle
    /\ ByAdmin
    /\ research_id \in DOMAIN db
    /\ needs_analysis(research_update)
    /\ db' = session_close(db, research_id :>
                                  setattrs(db[research_id], research_update))
    /\ req' = Respond("update", TRUE, 500)
    /\ calls' = 1
    /\ UNCHANGED <<index, next_id, files, an_vars, score_vars, misc_vars, other_vars>>

\* update_research: research_analyzer.analyze_research on updated_research
UpdateAnalyze(ok) ==
    /\ req.pc = "update_analyze"
    /\ req' = IF ok
              THEN [req EXCEPT !.pc = "update_writeback",
                               !.result = analyze_research(analysis_input(db[req.id]))]
              ELSE Respond("update", TRUE, 500)
    /\ calls' = calls + 1
    /\ UNCHANGED <<db, index, next_id, files, user, an_vars, score_vars, misc_vars, other_vars>>

\* update_research: service.update(research_id, {'analysis_results': ...})
UpdateWriteBack ==
    /\ req.pc = "update_writeback"
    /\ service_update(req.id, writeback(req.result))
    /\ req' = Respond("update", TRUE, 200)
    /\ UNCHANGED <<calls, files, user, an_vars, score_vars, misc_vars, other_vars>>

\* analyze_research_manually up to the return of analyze_research
AnalyzeManually(research_id, ok) ==
    /\ Idle
    /\ ByAdmin
    /\ research_id \in DOMAIN db
    /\ req' = IF ok
              THEN [kind |-> "analyze", pc |-> "analyze_writeback",
                    id |-> research_id, body |-> None, reanalyze |-> FALSE,
                    result |-> analyze_research(analysis_input(db[research_id])),
                    status |-> 0, detail |-> ""]
              ELSE Respond("analyze", FALSE, 500)
    /\ calls' = 1
    /\ UNCHANGED <<db, index, next_id, files, an_vars, score_vars, misc_vars, other_vars>>

\* analyze_research_manually: service.update(research_id, {'analysis_results': ...})
AnalyzeWriteBack ==
    /\ req.pc = "analyze_writeback"
    /\ service_update(req.id, writeback(req.result))
    /\ req' = Respond("analyze", FALSE, 200)
    /\ UNCHANGED <<calls, files, user, an_vars, score_vars, misc_vars, other_vars>>

\* delete_research: the answer is 200 whatever service.remove returns
DeleteResearch(research_id) ==
    /\ Idle
    /\ ByAdmin
    /\ service_remove(research_id)
    /\ req' = [Respond("delete", FALSE, 200) EXCEPT
                  !.result = PyBool(remove_returns(research_id))]
    /\ calls' = 0
    /\ UNCHANGED <<an_vars, score_vars, misc_vars, other_vars>>

\* upload_research_pdf with service.upload_pdf
UploadPdf(research_id, file) ==
    /\ Idle
    /\ ByAdmin
    /\ calls' = 0
    /\ IF ~endswith_pdf(file.filename)
       THEN /\ req' = HTTPException("upload", 400, "Only PDF files are allowed")
            /\ UNCHANGED <<db, files>>
       ELSE IF research_id \notin DOMAIN db
       THEN /\ req' = HTTPException("upload", 404, "Research not found")
            /\ UNCHANGED <<db, files>>
       ELSE IF file.file_type \notin allowed_types
       THEN /\ req' = HTTPException("upload", 400, "File type not allowed")
            /\ UNCHANGED <<db, files>>
       ELSE LET pdf_url == upload_file(file, "research_papers") IN
            /\ files' = files \cup {pdf_url}
            /\ db' = [db EXCEPT ![research_id].pdf_url = pdf_url]
            /\ req' = Respond("upload", FALSE, 200)
    /\ UNCHANGED <<index, next_id, an_vars, score_vars, misc_vars, other_vars>>

Init == AnInit /\ MiscInit0 /\ ScoreInit0 /\ SvcInit0 /\ OtherInit0

Next ==
    \/ \E kind \in {"create", "update", "analyze", "delete", "upload"} :
          Forbidden(kind)
    \/ \E kind \in {"update", "analyze"}, id \in Ids : NotFound(kind, id)
    \/ \E research \in CreateBodies : CreateResearch(research)
    \/ \E research \in CreateBodies : CreateAnalysisFails(research)
    \/ \E ok \in BOOLEAN : CreateAnalyze(ok)
    \/ CreateWriteBack
    \/ \E id \in Ids, u \in UpdateBodies : UpdateResearch(id, u)
    \/ \E id \in Ids, u \in UpdateBodies : UpdateAnalysisFails(id, u)
    \/ \E ok \in BOOLEAN : UpdateAnalyze(ok)
    \/ UpdateWriteBack
    \/ \E id \in Ids, ok \in BOOLEAN : AnalyzeManually(id, ok)
    \/ AnalyzeWriteBack
    \/ \E id \in Ids : DeleteResearch(id)
    \/ \E id \in Ids, file \in Uploads : UploadPdf(id, file)

Spec == Init /\ [][Next]_vars

(***************************************************************************)
(* The same requests when the database or the search index fails: a        *)
(* db.commit() that raises writes nothing, an es_client call that raises   *)
(* leaves the index as it was.  The exception ends the request.            *)
(***************************************************************************)
Faults == {"commit", "index"}

\* service.create: db.commit() raises, or _index_research raises after it
CreateFails(research, fault) ==
    /\ Idle
    /\ ByAdmin
    /\ next_id <= MaxPapers
    /\ IF fault = "commit"
       THEN /\ db' = session_close(db, <<>>)
            /\ UNCHANGED next_id
       ELSE /\ db' = [i \in DOMAIN db \cup {next_id} |->
                        IF i = next_id THEN with_analysis(Research(research))
                        ELSE db[i]]
            /\ next_id' = next_id + 1
    /\ req' = Respond("create", TRUE, 500)
    /\ calls' = 1
    /\ UNCHANGED <<index, files, an_vars, score_vars, misc_vars, other_vars>>

\* service.update of update_research: db.commit() raises, or _index_research
\* raises after it
UpdateFails(research_id, research_update, fault) ==
    /\ Idle
    /\ ByAdmin
    /\ research_id \in DOMAIN db
    /\ db' = IF fault = "commit"
             THEN session_close(db, research_id :>
                                   updated_row(db[research_id], research_update))
             ELSE [db EXCEPT ![research_id] =
                                updated_row(db[research_id], research_update)]
    /\ req' = Respond("update", needs_analysis(research_update), 500)
    /\ calls' = IF needs_analysis(research_update) THEN 1 ELSE 0
    /\ UNCHANGED <<index, next_id, files, an_vars, score_vars, misc_vars, other_vars>>

\* the endpoints' service.update(id, {'analysis_results': ...}): db.commit()
\* raises, or _index_research raises after it
WriteBackFails(fault) ==
    /\ req.pc \in {"create_writeback", "update_writeback", "analyze_writeback"}
    /\ db' = IF fault = "commit"
             THEN session_close(db, req.id :>
                                   updated_row(db[req.id], writeback(req.result)))
             ELSE [db EXCEPT ![req.id] =
                                updated_row(db[req.id], writeback(req.result))]
    /\ req' = Respond(req.kind, req.reanalyze, 500)
    /\ UNCHANGED <<index, next_id, calls, files, user, an_vars, score_vars, misc_vars,
                   other_vars>>

\* service.remove of an existing paper: es_client.delete raises, or
\* db.commit() raises after it; the file is deleted before both
DeleteFails(research_id, fault) ==
    /\ Idle
    /\ ByAdmin
    /\ research_id \in DOMAIN db
    /\ files' = IF db[research_id].pdf_url # NoUrl
                THEN delete_file(files, db[research_id].pdf_url)
                ELSE files
    /\ index' = IF fault = "commit" THEN es_delete(index, research_id) ELSE index
    /\ db' = session_close(db, <<>>)
    /\ req' = Respond("delete", FALSE, 500)
    /\ calls' = 0
    /\ UNCHANGED <<next_id, an_vars, score_vars, misc_vars, other_vars>>

NextFaults ==
    \/ Next
    \/ \E research \in CreateBodies, fault \in Faults : CreateFails(research, fault)
    \/ \E id \in Ids, u \in UpdateBodies, fault \in Faults : UpdateFails(id, u, fault)
    \/ \E fault \in Faults : WriteBackFails(fault)
    \/ \E id \in Ids, fault \in Faults : DeleteFails(id, fault)

SpecFaults == Init /\ [][NextFaults]_vars

(***************************************************************************)
(* Repeated calls on one ResearchAnalyzer object.  The loaded weights are  *)
(* fixed: model gives, for every encoder and helper scorer, its value on   *)
(* each argument.  What the object changes between calls is the lru_cache  *)
(* of count_technical_terms and the fit of self.tfidf / self.lda.          *)
(***************************************************************************)
RunInputs ==
    {[title |-> <<"Data">>, abstract |-> <<"model", ".", " ", "study">>,
      content |-> <<"data", " ", "analysis">>, keywords |-> k] :
        k \in {<<>>, <<"ML">>}}

RunTexts == {text_of(rd) : rd \in RunInputs}
RunContents == {rd.content : rd \in RunInputs}

\* helper scorers by what they are given: the embedding of the text, the
\* content, the whole research_data
TextScorers == {"calculate_uniqueness", "predict_academic_impact"}
ContentScorers == {"assess_methodology_robustness", "assess_validation_methods"}
InputScorers ==
    {"assess_innovation", "predict_practical_impact", "predict_citation_potential"}

\* the functions the fixed weights can compute on the arguments of RunInputs
Models ==
    [bert_model : [RunTexts -> RawVals],
     use_model : [{Split(t, ".") : t \in RunTexts} -> RawVals],
     by_text : [TextScorers -> [RunTexts -> UnitVals]],
     by_content : [ContentScorers -> [RunContents -> UnitVals]],
     by_input : [InputScorers -> [RunInputs -> UnitVals]]]

\* self.use_model(sentences) reduced to the mean similarity
sentence_encoder_fitted(sentences) ==
    IF fitted = None THEN model.use_model[sentences] ELSE 0

sentence_encoder(sentences) == model.use_model[sentences]

\* count_technical_terms behind @lru_cache(maxsize=1000): a hit returns the
\* cached count
lru_lookup(text) ==
    IF text \in DOMAIN lru_cache THEN lru_cache[text]
    ELSE count_technical_terms(text)

lru_store(text) ==
    IF text \in DOMAIN lru_cache THEN lru_cache
    ELSE [t \in DOMAIN lru_cache \cup {text} |->
            IF t = text THEN count_technical_terms(text) ELSE lru_cache[t]]

\* the four results of the gather of one analyze_research(rd) call
run_content_quality(rd) ==
    content_quality_result(
        calculate_clarity_score(model.bert_model[text_of(rd)]),
        calculate_coherence_score(text_of(rd),
                                  sentence_encoder(Split(text_of(rd), "."))),
        Min2(One, (lru_lookup(text_of(rd)) * One) \div 100))

run_novelty(rd) ==
    analyze_novelty(model.by_text["calculate_uniqueness"][text_of(rd)],
                    model.by_input["assess_innovation"][rd])

run_methodology(rd) ==
    analyze_methodology(<<"experimental">>,
        model.by_content["assess_methodology_robustness"][rd.content],
        model.by_content["assess_validation_methods"][rd.content])

run_impact_potential(rd) ==
    analyze_impact_potential(
        model.by_text["predict_academic_impact"][text_of(rd)],
        model.by_input["predict_practical_impact"][rd],
        model.by_input["predict_citation_potential"][rd])

\* what analyze_research(rd) returns
run_analysis(rd) ==
    LET results == <<run_content_quality(rd), run_novelty(rd),
                     run_methodology(rd), run_impact_potential(rd)>>
    IN Dict("content_quality" :> results[1]
         @@ "novelty" :> results[2]
         @@ "methodology" :> results[3]
         @@ "impact_potential" :> results[4]
         @@ "overall_score" :> calculate_overall_score(results))

\* one whole analyze_research(rd) call
AnalyzeResearchCall(rd) ==
    /\ an_pc' = "returned"
    /\ research_data' = rd
    /\ analysis' = run_analysis(rd)
    /\ lru_cache' = lru_store(text_of(rd))
    /\ first_run' =
          [results |->
              IF rd \in DOMAIN first_run.results THEN first_run.results
              ELSE [r \in DOMAIN first_run.results \cup {rd} |->
                      IF r = rd THEN analysis' ELSE first_run.results[r]],
           repeated |-> rd \in DOMAIN first_run.results]
    /\ UNCHANGED <<task, model_calls, order, model, fitted, score_vars, misc_vars,
                   svc_vars, similar, upd>>

\* one generate_embedding(text) call: the sentence encoder runs, the object
\* keeps nothing of it
GenerateEmbeddingCall(text) ==
    /\ text \in RunTexts
    /\ UNCHANGED vars

\* one extract_topics(text) call: self.tfidf and self.lda are fitted anew
ExtractTopicsCall(text) ==
    /\ fitted' = text
    /\ UNCHANGED <<an_vars, model, lru_cache, first_run, score_vars, misc_vars, svc_vars,
                   similar, upd>>

InitRuns ==
    /\ AnInit
    /\ MiscInit0
    /\ ScoreInit0
    /\ SvcInit0
    /\ model \in Models
    /\ lru_cache = <<>>
    /\ fitted = None
    /\ first_run = NoRuns
    /\ similar = None
    /\ upd = <<>>

NextRuns ==
    \/ \E rd \in RunInputs : AnalyzeResearchCall(rd)
    \/ \E text \in RunTexts : GenerateEmbeddingCall(text)
    \/ \E text \in RunContents : ExtractTopicsCall(text)

SpecRuns == InitRuns /\ [][NextRuns]_vars

(***************************************************************************)
(* ResearchService.find_similar on a given database and index.  A row      *)
(* written by ResearchService.create carries an embedding; a row whose     *)
(* embedding_vector is still the [] of Research.__init__ has none.  A row  *)
(* has no index document when es_client.index failed after the commit.    *)
(***************************************************************************)
DocIds == 1..MaxDocs
Limits == 0..MaxLimit

SimilarBody ==
    [title |-> <<"X">>, abstract |-> <<"Y">>,
     content |-> <<"data", " ", "analysis">>, keywords |-> <<>>]

\* the rows of table researches: with and without an embedding
DocRows == {Research(SimilarBody), with_analysis(Research(SimilarBody))}

Tables == UNION {[D -> DocRows] : D \in SUBSET DocIds}

\* the sequences of n distinct elements of S
Arrangements(S, n) ==
    {h \in [1..n -> S] : \A i \in 1..n, j \in 1..n : h[i] = h[j] => i = j}

Smaller(a, b) == IF a < b THEN a ELSE b

\* es_client.search with "size": size on match_all: the ids of the size best
\* scored documents, best first; the scores depend on the embeddings
es_search(idx, size) == Arrangements(DOMAIN idx, Smaller(size, Cardinality(DOMAIN idx)))

similar_ids_unfiltered(hits, research_id, limit) ==
    SubSeq(hits, 1, Smaller(limit, Len(hits)))

\* [int(hit["_id"]) for hit in hits if int(hit["_id"]) != research_id][:limit]
similar_ids(hits, research_id, limit) ==
    LET kept == SelectSeq(hits, LAMBDA h : h # research_id) IN
    SubSeq(kept, 1, Smaller(limit, Len(kept)))

\* self.db.query(Research).filter(Research.id.in_(ids)).all(), as the ids of
\* the rows it returns
query_in(ids) == {i \in DOMAIN db : \E k \in 1..Len(ids) : ids[k] = i}

\* not research or not research.embedding_vector
no_embedding(research_id) ==
    \/ research_id \notin DOMAIN db
    \/ db[research_id].embedding_vector = EmptyList

FindSimilar(research_id, limit) ==
    /\ IF no_embedding(research_id)
       THEN similar' = [research_id |-> research_id, limit |-> limit,
                        searched |-> FALSE, hits |-> <<>>, result |-> {}]
       ELSE \E hits \in es_search(index, limit + 1) :
               similar' = [research_id |-> research_id, limit |-> limit,
                           searched |-> TRUE, hits |-> hits,
                           result |-> query_in(similar_ids(hits, research_id, limit))]
    /\ UNCHANGED <<an_vars, score_vars, misc_vars, svc_vars, run_vars, upd>>

InitSimilar ==
    /\ AnInit
    /\ MiscInit0
    /\ ScoreInit0
    /\ RunInit0
    /\ upd = <<>>
    /\ similar = None
    /\ db \in Tables
    /\ \E D \in SUBSET DOMAIN db : index = [i \in D |-> index_body(db[i])]
    /\ next_id = MaxDocs + 1
    /\ req = NoRequest
    /\ calls = 0
    /\ files = {}
    /\ user = None

NextSimilar == \E research_id \in DocIds, limit \in Limits : FindSimilar(research_id, limit)

SpecSimilar == InitSimilar /\ [][NextSimilar]_vars

(***************************************************************************)
(* Two update_research requests for paper 1, each with its own Session     *)
(* (autoflush=False, expire_on_commit=False).  A handler runs without      *)
(* interruption between two awaits that suspend: the asyncio.gather of     *)
(* service.update, the index call of _index_research and the endpoint's    *)
(* analyze_research.  `await self.get(...)` does not suspend.              *)
(***************************************************************************)
Requests == {"r1", "r2"}
PaperId == 1

NotStarted ==
    [pc |-> "start", body |-> <<>>, obj |-> None, loaded |-> None,
     doc |-> None, status |-> 0]

\* the UPDATE a flush emits: the attributes whose value differs from the one
\* the Session loaded, on the row as it is now
flush(row, obj, loaded) ==
    [f \in DOMAIN row |-> IF obj[f] # loaded[f] THEN obj[f] ELSE row[f]]

\* the request has ended: get_db closes its Session
Finished(r, status) ==
    [upd[r] EXCEPT !.pc = "done", !.obj = None, !.loaded = None, !.doc = None,
                   !.status = status]

\* self.db.commit(); self.db.refresh(research); the body _index_research builds
Committed(r, obj, next_pc) ==
    LET row == flush(db[PaperId], obj, upd[r].loaded) IN
    /\ db' = [db EXCEPT ![PaperId] = row]
    /\ upd' = [upd EXCEPT ![r].pc = next_pc, ![r].obj = row, ![r].loaded = row,
                          ![r].doc = index_body(row)]

\* update_research: verify_admin_access, service.get, service.update up to
\* its first suspension
UpdBegin(r, research_update) ==
    /\ upd[r].pc = "start"
    /\ LET research == db[PaperId]
           started == [upd[r] EXCEPT !.body = research_update,
                                     !.loaded = research]
       IN IF needs_analysis(research_update)
          THEN /\ upd' = [upd EXCEPT ![r] =
                            [started EXCEPT
                                !.pc = "gather",
                                !.obj = setattrs(research, research_update)]]
               /\ UNCHANGED db
          ELSE LET row == flush(research, setattrs(research, research_update),
                                research) IN
               /\ db' = [db EXCEPT ![PaperId] = row]
               /\ upd' = [upd EXCEPT ![r] =
                            [started EXCEPT !.pc = "index", !.obj = row,
                                            !.loaded = row,
                                            !.doc = index_body(row)]]
    /\ UNCHANGED <<index, next_id, req, calls, files, user, an_vars, score_vars, misc_vars,
                   run_vars, similar>>

\* service.update resumes from asyncio.gather, or the gather raises
UpdGather(r, ok) ==
    /\ upd[r].pc = "gather"
    /\ IF ok
       THEN Committed(r, with_analysis(upd[r].obj), "index")
       ELSE /\ upd' = [upd EXCEPT ![r] = Finished(r, 500)]
            /\ UNCHANGED db
    /\ UNCHANGED <<index, next_id, req, calls, files, user, an_vars, score_vars, misc_vars,
                   run_vars, similar>>

\* _index_research resumes from es_client.index, or it raises; after it the
\* endpoint either returns or calls analyze_research on updated_research
UpdIndex(r, ok) ==
    /\ upd[r].pc = "index"
    /\ IF ok
       THEN /\ index' = es_index(index, PaperId, upd[r].doc)
            /\ upd' = [upd EXCEPT ![r] =
                         IF \E field \in {"title", "abstract", "content"} :
                                  field \in DOMAIN upd[r].body
                         THEN [upd[r] EXCEPT !.pc = "analyze", !.doc = None]
                         ELSE Finished(r, 200)]
       ELSE /\ upd' = [upd EXCEPT ![r] = Finished(r, 500)]
            /\ UNCHANGED index
    /\ UNCHANGED <<db, next_id, req, calls, files, user, an_vars, score_vars, misc_vars,
                   run_vars, similar>>

\* the endpoint resumes from analyze_research and runs
\* service.update(research_id, {'analysis_results': ...}) up to its index call
UpdAnalyze(r, ok) ==
    /\ upd[r].pc = "analyze"
    /\ IF ok
       THEN Committed(r, setattrs(upd[r].obj,
                                  writeback(analyze_research(
                                      analysis_input(upd[r].obj)))),
                      "reindex")
       ELSE /\ upd' = [upd EXCEPT ![r] = Finished(r, 500)]
            /\ UNCHANGED db
    /\ UNCHANGED <<index, next_id, req, calls, files, user, an_vars, score_vars, misc_vars,
                   run_vars, similar>>

\* the second _index_research resumes, and the endpoint returns
UpdReindex(r, ok) ==
    /\ upd[r].pc = "reindex"
    /\ IF ok
       THEN /\ index' = es_index(index, PaperId, upd[r].doc)
            /\ upd' = [upd EXCEPT ![r] = Finished(r, 200)]
       ELSE /\ upd' = [upd EXCEPT ![r] = Finished(r, 500)]
            /\ UNCHANGED index
    /\ UNCHANGED <<db, next_id, req, calls, files, user, an_vars, score_vars, misc_vars,
                   run_vars, similar>>

\* paper 1 as ResearchService.create stored and indexed it
InitUpdates ==
    /\ AnInit
    /\ MiscInit0
    /\ ScoreInit0
    /\ RunInit0
    /\ similar = None
    /\ \E research \in CreateBodies :
          /\ db = (PaperId :> with_analysis(Research(research)))
          /\ index = (PaperId :> index_body(with_analysis(Research(research))))
    /\ next_id = PaperId + 1
    /\ req = NoRequest
    /\ calls = 0
    /\ files = {}
    /\ user = None
    /\ upd = [r \in Requests |-> NotStarted]

NextUpdates ==
    \/ \E r \in Requests, u \in UpdateBodies : UpdBegin(r, u)
    \/ \E r \in Requests, ok \in BOOLEAN : UpdGather(r, ok)
    \/ \E r \in Requests, ok \in BOOLEAN : UpdIndex(r, ok)
    \/ \E r \in Requests, ok \in BOOLEAN : UpdAnalyze(r, ok)
    \/ \E r \in Requests, ok \in BOOLEAN : UpdReindex(r, ok)

SpecUpdates == InitUpdates /\ [][NextUpdates]_vars

(***************************************************************************)
(* app/models/comment.py: one Comment row and its moderation methods.     *)
(* The row is taken as inserted, so the column defaults are in place.      *)
(***************************************************************************)
\* largest likes and reports a row is followed to
MaxCount == 6

CommentContents ==
    {"nice paper", "BUY NOW HTTP://A HTTP://B HTTP://C", "[Comment deleted]"}

\* how many of the four spam_indicators of _check_spam hold for the content
spam_indicators(content) ==
    IF content = "BUY NOW HTTP://A HTTP://B HTTP://C" THEN 3 ELSE 0

\* self.spam_score > 0.5, spam_score being sum(spam_indicators) / 4
check_spam(content) == 2 * spam_indicators(content) > 4

\* Comment(content=...), inserted: status 'published', likes 0, reports 0
NewComment(content) ==
    [status |-> "published", content |-> content,
     formatted_content |-> <<"<p>", content, "</p>">>,
     is_spam |-> check_spam(content), likes |-> 0, reports |-> 0,
     metadata |-> {}]

Deltas == {-1, 0, 1, 2}

too_many_reports_above(reports) == reports > 5

\* if self.reports >= 5
too_many_reports(reports) == reports >= 5

update_metrics(likes_delta, reports_delta) ==
    /\ comment # None
    /\ comment.likes + likes_delta \in -1..MaxCount
    /\ comment.reports + reports_delta \in -1..MaxCount
    /\ comment' = [comment EXCEPT
                      !.likes = @ + likes_delta,
                      !.reports = @ + reports_delta,
                      !.status = IF too_many_reports(comment.reports + reports_delta)
                                 THEN "hidden" ELSE @]
    /\ UNCHANGED <<an_vars, score_vars, svc_vars, other_vars, category_vars,
                   limiter_vars, redis_vars>>

mark_as_spam ==
    /\ comment # None
    /\ comment' = [comment EXCEPT
                      !.is_spam = TRUE,
                      !.status = "hidden",
                      !.metadata = @ \cup {"spam_detected_at"}]
    /\ UNCHANGED <<an_vars, score_vars, svc_vars, other_vars, category_vars,
                   limiter_vars, redis_vars>>

restore ==
    /\ comment # None
    /\ comment' = [comment EXCEPT
                      !.status = "published", !.is_spam = FALSE, !.reports = 0]
    /\ UNCHANGED <<an_vars, score_vars, svc_vars, other_vars, category_vars,
                   limiter_vars, redis_vars>>

soft_delete ==
    /\ comment # None
    /\ comment' = [comment EXCEPT
                      !.status = "deleted",
                      !.content = "[Comment deleted]",
                      !.formatted_content = <<"<p>", "[Comment deleted]", "</p>">>]
    /\ UNCHANGED <<an_vars, score_vars, svc_vars, other_vars, category_vars,
                   limiter_vars, redis_vars>>

InitComment ==
    /\ AnInit
    /\ ScoreInit0
    /\ SvcInit0
    /\ OtherInit0
    /\ CategoryInit0
    /\ LimiterInit0
    /\ RedisInit0
    /\ \E content \in CommentContents : comment = NewComment(content)

NextComment ==
    \/ \E likes_delta \in Deltas, reports_delta \in Deltas :
          update_metrics(likes_delta, reports_delta)
    \/ mark_as_spam
    \/ restore
    \/ soft_delete

SpecComment == InitComment /\ [][NextComment]_vars

(***************************************************************************)
(* app/models/category.py: the parent relation of the categories and       *)
(* Category.move_to_parent.                                                *)
(***************************************************************************)
\* number of categories
MaxCats == 3
Cats == 1..MaxCats
\* parent is None
NoParent == 0

\* the categories reached from c by following parent at most k times
Ancestors(p, c, k) ==
    LET RECURSIVE up(_, _)
        up(current, fuel) ==
            IF p[current] = NoParent \/ fuel = 0 THEN {}
            ELSE {p[current]} \cup up(p[current], fuel - 1)
    IN up(c, k)

\* no category is its own ancestor
Acyclic(p) == \A c \in DOMAIN p : c \notin Ancestors(p, c, MaxCats)

\* self.is_descendant_of(category): "True", "False", or "hangs" when the while
\* loop runs into a cycle that does not hold category
is_descendant_of(self, category) ==
    LET RECURSIVE walk(_, _)
        walk(current, fuel) ==
            IF parent[current] = NoParent THEN "False"
            ELSE IF parent[current] = category THEN "True"
            ELSE IF fuel = 0 THEN "hangs"
            ELSE walk(parent[current], fuel - 1)
    IN walk(self, MaxCats)

\* self.move_to_parent(new_parent)
move_to_parent(self, new_parent) ==
    /\ new_parent # NoParent => is_descendant_of(new_parent, self) # "hangs"
    /\ IF new_parent # NoParent /\ is_descendant_of(new_parent, self) = "True"
       THEN /\ move' = [self |-> self, new_parent |-> new_parent,
                        raised |-> "ValueError"]
            /\ UNCHANGED parent
       ELSE /\ move' = [self |-> self, new_parent |-> new_parent,
                        raised |-> "nothing"]
            /\ parent' = [parent EXCEPT ![self] = new_parent]
    /\ UNCHANGED <<an_vars, score_vars, svc_vars, other_vars, comment,
                   limiter_vars, redis_vars>>

\* any acyclic category tree
InitCategory ==
    /\ AnInit
    /\ ScoreInit0
    /\ SvcInit0
    /\ OtherInit0
    /\ CommentInit0
    /\ LimiterInit0
    /\ RedisInit0
    /\ parent \in [Cats -> Cats \cup {NoParent}]
    /\ Acyclic(parent)
    /\ move = None

NextCategory ==
    \E self \in Cats, new_parent \in Cats \cup {NoParent} :
        move_to_parent(self, new_parent)

SpecCategory == InitCategory /\ [][NextCategory]_vars

(***************************************************************************)
(* app/core/security.py: RateLimiter.  Time is datetime.utcnow() in whole  *)
(* ticks; several calls can fall on one tick.                              *)
(***************************************************************************)
\* max_requests and time_window of the limiter (api_limiter: 100 and 60)
MaxRequests == 2
TimeWindow == 2
\* last tick of the clock
MaxClock == 3
\* longest list of timestamps followed for one key
MaxStamps == MaxRequests + 1

LimiterKeys == {"k1", "k2"}

\* RateLimiter(max_requests, time_window)
RateLimiter(max_requests, time_window) ==
    [max_requests |-> max_requests, time_window |-> time_window,
     requests |-> <<>>]

within_window_late(stamp, cutoff) == stamp > cutoff + 1

\* req > cutoff
within_window(stamp, cutoff) == stamp > cutoff

\* RateLimiter._cleanup(now): the dict self.requests afterwards
cleanup(requests, time_window, t) ==
    LET cutoff == t - time_window
        kept(key) == SelectSeq(requests[key], LAMBDA stamp : within_window(stamp, cutoff))
    IN [key \in {k \in DOMAIN requests : kept(k) # <<>>} |-> kept(key)]

\* RateLimiter.is_allowed(key), called at time now
is_allowed(key) ==
    LET cleaned == cleanup(limiter.requests, limiter.time_window, now)
        stamps == (IF key \in DOMAIN cleaned THEN cleaned[key] ELSE <<>>) \o <<now>>
        allowed == Len(stamps) <= limiter.max_requests
    IN /\ limiter # None
       /\ Len(stamps) <= MaxStamps
       /\ limiter' = [limiter EXCEPT !.requests =
                         [k \in DOMAIN cleaned \cup {key} |->
                             IF k = key THEN stamps ELSE cleaned[k]]]
       /\ granted' = IF allowed
                     THEN [granted EXCEPT ![key] = Append(@, now)]
                     ELSE granted
       /\ UNCHANGED <<now, an_vars, score_vars, svc_vars, other_vars, comment,
                      category_vars, redis_vars>>

\* time passes
Tick ==
    /\ now < MaxClock
    /\ now' = now + 1
    /\ UNCHANGED <<limiter, granted, an_vars, score_vars, svc_vars, other_vars,
                   comment, category_vars, redis_vars>>

InitLimiter ==
    /\ AnInit
    /\ ScoreInit0
    /\ SvcInit0
    /\ OtherInit0
    /\ CommentInit0
    /\ CategoryInit0
    /\ RedisInit0
    /\ limiter = RateLimiter(MaxRequests, TimeWindow)
    /\ now = 0
    /\ granted = [key \in LimiterKeys |-> <<>>]

NextLimiter ==
    \/ \E key \in LimiterKeys : is_allowed(key)
    \/ Tick

SpecLimiter == InitLimiter /\ [][NextLimiter]_vars

(***************************************************************************)
(* app/core/deps.py: RateLimitDependency.__call__ for the requests of one  *)
(* user.  Each await on the Redis client is a step of its own; the key     *)
(* expires when Redis decides its time to live is over.                    *)
(***************************************************************************)
\* settings.RATE_LIMIT_REQUESTS (100)
RateLimitRequests == 2
\* requests of the user that are in flight together
MaxConcurrent == 2

Clients == 1..MaxConcurrent

\* the key is not in Redis: redis_client.get returns None
NoKey == [value |-> 0, ttl |-> FALSE]

\* await redis_client.get(key)
RlGet(c) ==
    /\ rl[c].pc = "get"
    /\ rl' = [rl EXCEPT ![c] = [pc |-> "got", requests |-> redis.value,
                                status |-> 0]]
    /\ UNCHANGED <<redis, admitted, an_vars, score_vars, svc_vars, other_vars,
                   comment, category_vars, limiter_vars>>

\* what follows the get: setex, HTTP 429, or incr
RlDecide(c) ==
    /\ rl[c].pc = "got"
    /\ IF rl[c].requests = NoKey.value
       THEN \* await redis_client.setex(key, self.window, 1)
            /\ redis' = [value |-> 1, ttl |-> TRUE]
            /\ admitted' = IF redis = NoKey THEN 1 ELSE admitted + 1
            /\ rl' = [rl EXCEPT ![c] = [pc |-> "get", requests |-> 0,
                                        status |-> 200]]
       ELSE IF rl[c].requests >= RateLimitRequests
       THEN /\ rl' = [rl EXCEPT ![c] = [pc |-> "get", requests |-> 0,
                                        status |-> 429]]
            /\ UNCHANGED <<redis, admitted>>
       ELSE \* await redis_client.incr(key): on a key that is gone, INCR
            \* starts from 0 and sets no time to live
            /\ redis' = [redis EXCEPT !.value = @ + 1]
            /\ admitted' = IF redis = NoKey THEN 1 ELSE admitted + 1
            /\ rl' = [rl EXCEPT ![c] = [pc |-> "get", requests |-> 0,
                                        status |-> 200]]
    /\ UNCHANGED <<an_vars, score_vars, svc_vars, other_vars, comment,
                   category_vars, limiter_vars>>

\* the key's time to live is over
RlExpire ==
    /\ redis # None
    /\ redis.ttl
    /\ redis' = NoKey
    /\ admitted' = 0
    /\ UNCHANGED <<rl, an_vars, score_vars, svc_vars, other_vars, comment,
                   category_vars, limiter_vars>>

InitRedis ==
    /\ AnInit
    /\ ScoreInit0
    /\ SvcInit0
    /\ OtherInit0
    /\ CommentInit0
    /\ CategoryInit0
    /\ LimiterInit0
    /\ redis = NoKey
    /\ rl = [c \in Clients |-> [pc |-> "get", requests |-> 0, status |-> 0]]
    /\ admitted = 0

NextRedis ==
    \/ \E c \in Clients : RlGet(c)
    \/ \E c \in Clients : RlDecide(c)
    \/ RlExpire

SpecRedis == InitRedis /\ [][NextRedis]_vars

(***************************************************************************)
(* Properties of the analyzer                                              *)
(***************************************************************************)
Returned == an_pc = "returned"
Overall == analysis.items["overall_score"]
Agg(m, k) == analysis.items[m].items[<<"overall", "_", k>>]
AggQ == Agg("content_quality", "quality")
AggN == Agg("novelty", "novelty")
AggM == Agg("methodology", "methodology")
AggI == Agg("impact_potential", "impact")

\* C1: a returned overall_score is 0.30*overall_quality + 0.25*overall_novelty
\* + 0.25*overall_methodology + 0.20*overall_impact.
C1_OverallIsWeightedSum ==
    Returned => Overall = 30 * AggQ + 25 * AggN + 25 * AggM + 20 * AggI

\* C2: the weights of the terms summed into a returned overall_score add up
\* to 1.0.
C2_SummedWeightsAreOne ==
    Returned => summed_weights(gathered(task)) = 100

AggsInUnit == \A a \in {AggQ, AggN, AggM, AggI} : 0 <= a /\ a <= One
AggsAllOne == \A a \in {AggQ, AggN, AggM, AggI} : a = One

\* C3: with the four aggregates in [0,1] the overall_score is in [0,1], and it
\* is 1.0 when the four aggregates are 1.0.
C3_OverallInUnitRange ==
    (Returned /\ AggsInUnit) =>
        /\ 0 <= Overall /\ Overall <= 100 * One
        /\ AggsAllOne => Overall = 100 * One

SubMetricKeys(m) ==
    CASE m = "content_quality" ->
            {<<"clarity">>, <<"coherence">>, <<"technical", "_", "depth">>}
      [] m = "novelty" -> {<<"uniqueness">>, <<"innovation">>}
      [] m = "methodology" -> {<<"robustness">>, <<"validation">>}
      [] m = "impact_potential" ->
            {<<"academic", "_", "impact">>, <<"practical", "_", "impact">>,
             <<"citation", "_", "potential">>}

\* C4: every numeric sub-metric of a sub-routine result lies in [0,1].
C4_SubMetricsClamped ==
    \A m \in Metrics :
        isinstance_dict(task[m]) =>
            \A k \in SubMetricKeys(m) :
                0 <= task[m].items[k] /\ task[m].items[k] <= One

\* C5: analyze_research returns a result only when all four sub-routines
\* returned one; once one of them has raised, no result is returned.
C5_NoPartialResult ==
    /\ Returned => \A m \in Metrics : isinstance_dict(task[m])
    /\ gather_raises(task) => ~Returned /\ analysis = None

C5_Witness ==
    /\ an_pc = "raised"
    /\ analysis = None
    /\ Cardinality({m \in Metrics : isinstance_dict(task[m])}) = 3

ScoreTerm(r, k, w) ==
    IF r.type = "dict" /\ k \in DOMAIN r.items THEN r.items[k] * w ELSE 0

\* C6: calculate_overall_score returns the sum of the weighted aggregates that
\* are present under the looked-up keys overall_content, overall_novelty,
\* overall_methodology, overall_impact; an absent key adds nothing.
C6_AbsentKeyDropped ==
    score_out # None =>
        score_out.value =
            ScoreTerm(score_in[1], <<"overall", "_", "content">>, 30)
          + ScoreTerm(score_in[2], <<"overall", "_", "novelty">>, 25)
          + ScoreTerm(score_in[3], <<"overall", "_", "methodology">>, 25)
          + ScoreTerm(score_in[4], <<"overall", "_", "impact">>, 20)

C6_Witness ==
    /\ score_out # None
    /\ score_out.value > 0
    /\ isinstance_dict(score_in[2])
    /\ <<"overall", "_", "novelty">> \notin DOMAIN score_in[2].items
    /\ isinstance_dict(score_in[4])
    /\ <<"overall", "_", "impact">> \in DOMAIN score_in[4].items

(***************************************************************************)
(* Properties of the service and the endpoints                             *)
(***************************************************************************)
Succeeded(kinds) == Idle /\ req.status = 200 /\ req.kind \in kinds

\* C7: a successful create request, or update request that sets title,
\* abstract or content, has invoked analyze_research exactly once.
C7_AnalyzerInvokedOnce ==
    (Succeeded({"create", "update"}) /\ req.reanalyze) => calls = 1

\* C8: every stored paper's analysis_results, embedding_vector and
\* topic_distribution are the ones computed from its stored title, abstract
\* and content.
C8_ArtifactsCurrent ==
    \A id \in DOMAIN db :
        LET r == db[id] IN
        /\ \E k \in KeywordLists :
              r.analysis_results =
                  analyze_research([title |-> r.title, abstract |-> r.abstract,
                                    content |-> r.content, keywords |-> k])
        /\ r.embedding_vector = tolist(generate_embedding(fstr2(r.title, r.abstract)))
        /\ r.topic_distribution = extract_topics(r.content)

C8_Witness ==
    /\ Succeeded({"update"})
    /\ req.reanalyze
    /\ \E id \in DOMAIN db :
          db[id].title = <<"Data">> /\ db[id].content = <<"data", " ", "analysis">>

Artifacts == {"analysis_results", "embedding_vector", "topic_distribution"}
HasContentField(update_data) ==
    DOMAIN update_data \cap {"title", "abstract", "content"} # {}
\* the bodies of a PUT that set none of title, abstract, content
NoContentBodies == {u \in UpdateBodies : ~HasContentField(u)}
WriteBackStep == CreateWriteBack \/ UpdateWriteBack \/ AnalyzeWriteBack

\* C9 as claimed: a service.update whose update_data holds none of title,
\* abstract, content invokes no analysis and leaves the three artifacts of the
\* paper as they were.
C9_NoContentNoChange ==
    [][/\ \A id \in Ids, u \in NoContentBodies :
            UpdateResearch(id, u) =>
                /\ calls' = 0
                /\ \A a \in Artifacts : db'[id][a] = db[id][a]
       /\ (WriteBackStep /\ ~HasContentField(writeback(req.result))) =>
                /\ calls' = calls
                /\ \A a \in Artifacts : db'[req.id][a] = db[req.id][a]]_vars

\* C9 amended: such an update invokes no analysis and changes no artifact but
\* the ones update_data itself names, which take the given value.
C9_NoContentNoReanalysis ==
    [][/\ \A id \in Ids, u \in NoContentBodies :
            UpdateResearch(id, u) =>
                /\ calls' = 0
                /\ \A a \in Artifacts : db'[id][a] = db[id][a]
       /\ (WriteBackStep /\ ~HasContentField(writeback(req.result))) =>
                /\ calls' = calls
                /\ db'[req.id].analysis_results = req.result
                /\ \A a \in Artifacts \ {"analysis_results"} :
                      db'[req.id][a] = db[req.id][a]]_vars

C9_Witness ==
    /\ Succeeded({"update"})
    /\ ~req.reanalyze
    /\ calls = 0
    /\ \E id \in DOMAIN db :
          db[id].keywords # db[id].analysis_results.analysis_of.keywords

\* C10 as claimed: after a successful create or update the index document of
\* a paper carries the analysis results, the embedding vector and the topic
\* distribution of its record.
C10_IndexMirrorsArtifacts ==
    Succeeded({"create", "update"}) =>
        \A id \in DOMAIN db :
            /\ id \in DOMAIN index
            /\ "analysis_results" \in DOMAIN index[id]
            /\ \A a \in Artifacts : index[id][a] = db[id][a]

\* C10 amended: the index document of every stored paper carries the
\* embedding vector and the topic distribution of its record, and no analysis
\* results.
C10_IndexMirrorsVectors ==
    \A id \in DOMAIN db :
        /\ id \in DOMAIN index
        /\ "analysis_results" \notin DOMAIN index[id]
        /\ index[id].embedding_vector = db[id].embedding_vector
        /\ index[id].topic_distribution = db[id].topic_distribution

C10_Witness ==
    /\ Succeeded({"create"})
    /\ \E id \in DOMAIN db :
          /\ id \in DOMAIN index
          /\ index[id].embedding_vector =
                 tolist(generate_embedding(fstr2(db[id].title, db[id].abstract)))

(***************************************************************************)
(* Properties of the scoring sub-routines                                  *)
(***************************************************************************)
ContentQualityDone == isinstance_dict(task["content_quality"])
Sub2(a, m, k) == a.items[m].items[k]
Sub(m, k) == task[m].items[k]

\* the sentences of a text: its pieces between full stops that hold a word
sentence_count(s) ==
    Cardinality({i \in 1..Len(Split(s, ".")) :
                    \E j \in 1..Len(Split(s, ".")[i]) : Split(s, ".")[i][j] # " "})

CoherenceCalls == {c \in model_calls : c.by = "calculate_coherence_score"}

\* C13: for an input whose content has fewer than two sentences the coherence
\* of the content_quality result is exactly 0.8 and the sentence encoder was
\* not called for coherence.
C13_CoherenceDefault ==
    (ContentQualityDone /\ sentence_count(research_data.content) < 2) =>
        /\ Sub("content_quality", <<"coherence">>) = (8 * One) \div 10
        /\ CoherenceCalls = {}

\* the vocabulary terms that occur in a text as words
terms_in(s) ==
    {t \in get_technical_terms : \E i \in 1..Len(s) : lower(s)[i] = t}

\* C14: technical_depth is 1.0 when the content holds more than 100 distinct
\* vocabulary terms, and the number of distinct terms / 100 otherwise.
C14_TechnicalDepthOfContent ==
    ContentQualityDone =>
        LET n == Cardinality(terms_in(research_data.content)) IN
        Sub("content_quality", <<"technical", "_", "depth">>) =
            IF n > 100 THEN One ELSE (n * One) \div 100

\* C15: in every sub-routine result the aggregate is the arithmetic mean of
\* the result's own sub-metrics.
C15_AggregatesAreMeans ==
    /\ ContentQualityDone =>
          3 * Sub("content_quality", <<"overall", "_", "quality">>) =
              Sub("content_quality", <<"clarity">>)
            + Sub("content_quality", <<"coherence">>)
            + Sub("content_quality", <<"technical", "_", "depth">>)
    /\ isinstance_dict(task["novelty"]) =>
          2 * Sub("novelty", <<"overall", "_", "novelty">>) =
              Sub("novelty", <<"uniqueness">>) + Sub("novelty", <<"innovation">>)
    /\ isinstance_dict(task["methodology"]) =>
          2 * Sub("methodology", <<"overall", "_", "methodology">>) =
              Sub("methodology", <<"robustness">>)
            + Sub("methodology", <<"validation">>)
    /\ isinstance_dict(task["impact_potential"]) =>
          3 * Sub("impact_potential", <<"overall", "_", "impact">>) =
              Sub("impact_potential", <<"academic", "_", "impact">>)
            + Sub("impact_potential", <<"practical", "_", "impact">>)
            + Sub("impact_potential", <<"citation", "_", "potential">>)

C15_Witness ==
    /\ Returned
    /\ Sub("content_quality", <<"clarity">>) > Sub("content_quality", <<"coherence">>)
    /\ Sub("content_quality", <<"technical", "_", "depth">>) > 0
    /\ Sub("novelty", <<"uniqueness">>) # Sub("novelty", <<"innovation">>)
    /\ Sub("methodology", <<"robustness">>) # Sub("methodology", <<"validation">>)
    /\ Sub("impact_potential", <<"academic", "_", "impact">>)
          # Sub("impact_potential", <<"citation", "_", "potential">>)

\* the weight the weights dict gives a dimension, in hundredths
weight_of(m) ==
    CASE m = "content_quality" -> 30
      [] m = "novelty" -> 25
      [] m = "methodology" -> 25
      [] m = "impact_potential" -> 20

\* C16: whatever the order in which the four sub-routines finish, a result is
\* returned only after all four have finished, each sub-result is stored
\* under its own dimension's key and enters the sum with its own dimension's
\* weight, so the result is the same for every completion order.
C16_OrderIndependent ==
    Returned =>
        /\ Len(order) = Cardinality(Metrics)
        /\ {order[i] : i \in 1..Len(order)} = Metrics
        /\ \A m \in Metrics : analysis.items[m] = task[m]
        /\ Overall = weight_of("content_quality") * AggQ
                    + weight_of("novelty") * AggN
                    + weight_of("methodology") * AggM
                    + weight_of("impact_potential") * AggI

AnalysisBodies == {u \in UpdateBodies : needs_analysis(u)}
ServiceAnalysisFails ==
    \/ \E research \in CreateBodies : CreateAnalysisFails(research)
    \/ \E id \in Ids, u \in AnalysisBodies : UpdateAnalysisFails(id, u)

\* C11: when the analysis step of ResearchService.create or
\* ResearchService.update fails, the request ends with the server error, the
\* analyzer has been invoked that one time only, and the database, the index
\* and the stored files are what they were before the request.
C11_FailureLeavesNoTrace ==
    [][ServiceAnalysisFails =>
          /\ req'.pc = "done"
          /\ req'.status = 500
          /\ calls' = 1
          /\ UNCHANGED <<db, index, next_id, files>>]_vars

C11_Witness ==
    /\ Idle
    /\ req.kind = "update"
    /\ req.status = 500
    /\ calls = 1
    /\ \E id \in DOMAIN db :
          /\ db[id].title = <<"X">>
          /\ db[id].analysis_results.analysis_of.title = <<"X">>
          /\ id \in DOMAIN index

\* C18: a remove that returns True leaves neither a row nor an index document
\* with that id; a remove of an id that has no row returns False and leaves
\* the database, the index and the stored files as they were.
C18_RemoveRemoves ==
    [][\A id \in Ids :
          DeleteResearch(id) =>
             /\ req'.result = PyBool(TRUE) =>
                   (id \notin DOMAIN db' /\ id \notin DOMAIN index')
             /\ id \notin DOMAIN db =>
                   (req'.result = PyBool(FALSE) /\ UNCHANGED <<db, index, files>>)]_vars

C18_Witness ==
    /\ Idle
    /\ req.kind = "delete"
    /\ req.result = PyBool(TRUE)
    /\ next_id > 1
    /\ DOMAIN db # Ids
    /\ DOMAIN index = DOMAIN db

\* C19: a create, update, delete, upload-pdf or manual-analyze request of a
\* user whose is_admin is false ends with 403 'Admin access required', and no
\* row, index document or file is created, changed or deleted by it.
C19_NonAdminForbidden ==
    [][\A current_user \in Users :
          (Idle /\ user' = current_user /\ ~current_user.is_admin) =>
             /\ req'.pc = "done"
             /\ req'.status = 403
             /\ req'.detail = "Admin access required"
             /\ req'.kind \in {"create", "update", "delete", "upload", "analyze"}
             /\ UNCHANGED <<db, index, next_id, files>>]_vars

C19_Witness ==
    /\ Idle
    /\ req.kind = "upload"
    /\ req.status = 403
    /\ ~user.is_admin
    /\ DOMAIN db # {}
    /\ files # {}

\* C17: find_similar returns at most limit papers and never the query paper;
\* when the paper does not exist or has no embedding vector it returns the
\* empty list and has sent no query to the index.
C17_SimilarBounded ==
    similar # None =>
        /\ Cardinality(similar.result) <= similar.limit
        /\ similar.research_id \notin similar.result
        /\ (\/ similar.research_id \notin DOMAIN db
            \/ db[similar.research_id].embedding_vector = EmptyList) =>
               (similar.result = {} /\ ~similar.searched)

\* the index answered with the query paper among limit + 1 hits, and limit
\* other papers are returned
C17_Witness ==
    /\ similar # None
    /\ similar.searched
    /\ similar.limit = 2
    /\ Len(similar.hits) = 3
    /\ \E k \in 1..3 : similar.hits[k] = similar.research_id
    /\ Cardinality(similar.result) = 2

(***************************************************************************)
(* Properties of interleaved updates                                       *)
(***************************************************************************)
\* the analysis_results of the row are computed from its title, abstract and
\* content
AnalysisCurrent(research) ==
    \E k \in KeywordLists :
        research.analysis_results =
            analyze_research([title |-> research.title,
                              abstract |-> research.abstract,
                              content |-> research.content, keywords |-> k])

AllFinished == \A r \in Requests : upd[r].pc = "done"

\* C20: when both update requests have finished, the stored analysis_results
\* of the paper are the ones computed from its stored title, abstract and
\* content.
C20_AnalysisOfFinalFields == AllFinished => AnalysisCurrent(db[PaperId])

(***************************************************************************)
(* Properties of the Comment row                                           *)
(***************************************************************************)
UpdateMetricsStep ==
    \E likes_delta \in Deltas, reports_delta \in Deltas :
        update_metrics(likes_delta, reports_delta)

\* C26: a published comment has fewer than 5 reports; an update_metrics that
\* leaves reports at 5 or more sets the status to 'hidden'; restore sets
\* reports to 0.
C26_PublishedFewReports ==
    /\ [](comment.status = "published" => comment.reports < 5)
    /\ [][/\ (UpdateMetricsStep /\ comment'.reports >= 5) =>
                 comment'.status = "hidden"
          /\ restore => (comment'.reports = 0 /\ comment'.status = "published")]_vars

\* reports reached 5 through update_metrics alone
C26_Witness ==
    /\ comment.status = "hidden"
    /\ comment.reports = 5
    /\ ~comment.is_spam
    /\ comment.metadata = {}
    /\ comment.content = "nice paper"

\* C27: a comment whose status is 'deleted' keeps that status and the content
\* '[Comment deleted]' in every step that is not a restore.
C27_DeletedUntilRestore ==
    [][(comment.status = "deleted" /\ ~restore) =>
          /\ comment'.status = "deleted"
          /\ comment'.content = "[Comment deleted]"]_vars

(***************************************************************************)
(* Properties of the category tree                                         *)
(***************************************************************************)
\* c itself and the categories that have c among their ancestors
SelfAndDescendants(c) ==
    {c} \cup {d \in Cats : c \in Ancestors(parent, d, MaxCats)}

\* C25: the parent relation stays acyclic, and a move_to_parent call whose
\* new parent is the category itself or one of its descendants raises
\* ValueError and leaves the parent relation unchanged.
C25_TreeStaysAcyclic ==
    /\ [](Acyclic(parent))
    /\ [][\A self \in Cats, new_parent \in Cats :
             (move_to_parent(self, new_parent)
                 /\ new_parent \in SelfAndDescendants(self)) =>
                (move'.raised = "ValueError" /\ parent' = parent)]_vars

(***************************************************************************)
(* Properties of the rate limiters                                         *)
(***************************************************************************)
\* the is_allowed(key) calls that returned True at a time in (t - w, t]
GrantedIn(key, t, w) ==
    {i \in 1..Len(granted[key]) : granted[key][i] > t - w /\ granted[key][i] <= t}

C24_AdmittedBounded == admitted <= RateLimitRequests

(***************************************************************************)
(* Properties of requests that end with an error                           *)
(***************************************************************************)
\* C21: whenever no request is running, the ids of the documents in the
\* index are the ids of the committed rows.
C21_IndexIdsAreRowIds == Idle => DOMAIN index = DOMAIN db

CreateEndsWithError ==
    /\ req'.kind = "create"
    /\ req'.pc = "done"
    /\ req'.status # 200

\* C22: a create request that ends with an error leaves no row and no index
\* document behind: if it fails in its first step, database and index are
\* unchanged; if it fails later, the id it was given is in neither.
C22_FailedCreateLeavesNothing ==
    [][/\ (Idle /\ CreateEndsWithError) => UNCHANGED <<db, index>>
       /\ (~Idle /\ CreateEndsWithError) =>
             (req.id \notin DOMAIN db' /\ req.id \notin DOMAIN index')]_vars

====
